---- MODULE Spec2Model ----
(***************************************************************************)
(* A model of the domopay vendor onboarding and payment-split workflow:    *)
(* the vendor store (models/serviceVendor.js), the offering store          *)
(* (models/offering.js), the customer store (models/customer.js) and the   *)
(* request handlers of routes/serviceVendors/serviceVendors.js,            *)
(* routes/serviceVendors/stripe.js and routes/api/offerings.js.  Under     *)
(* Spec one action is one HTTP request served from start to end; what the  *)
(* payments provider answers is an input of the action.  SpecStep asks the *)
(* signup wizard about every vendor record, and SpecAuthorize serves       *)
(* several authorize requests at once, one await at a time.                *)
(***************************************************************************)
EXTENDS Integers, Sequences, FiniteSets, TLC

\* ------------------------------------------------------------------ bounds
MaxVendors == 2
MaxOfferings == 2
MaxRequests == 4
\* Math.random() is sampled at k / RandomDenominator for k in RandomSamples.
RandomDenominator == 9001
RandomSamples == {4, 9000}

\* ------------------------------------------------------------- JS values
\* undefined and null are one value: the code only tests them with !x,
\* == undefined and $ne: null, none of which tells them apart.
Null == "null"
\* A field that the request body does not carry.
Absent == "absent"
\* Booleans are kept as strings so that a Boolean field can also be Null.
True == "true"
False == "false"

Falsy(x) == x \in {Null, "", False}

\* ---------------------------------------------------------- configuration
appName == "domopay"

\* ------------------------------------------------------------ vendor model
\* ServiceVendorSchema: the enum of `type` and the defaults of type and country.
VendorTypes == {"individual", "company"}
DefaultType == "company"
DefaultCountry == "DE"

\* Identifiers the provider hands out, in the order it hands them out.
AccountIds == <<"acct_1", "acct_2", "acct_3", "acct_4">>
ChargeIds == <<"ch_1", "ch_2", "ch_3", "ch_4">>

\* The request bodies the model submits.  Every field is either Absent or a
\* value as body-parser delivers it.
\* The email of the n-th signup, unless it repeats one that is in use.
Emails == <<"a@x.de", "b@x.de", "c@x.de", "d@x.de">>
\* The value of crypto.randomBytes(20).toString('hex') at the n-th signup,
\* unless it repeats a key that is in use.
GeneratedKeys == <<"k1", "k2", "k3", "k4">>

\* The same addresses in upper case, and String.prototype.toLowerCase on the
\* addresses of the model.
UpperEmails == <<"A@X.DE", "B@X.DE", "C@X.DE", "D@X.DE">>
toUpperCase(e) ==
  IF \E i \in 1..Len(Emails) : Emails[i] = e
  THEN UpperEmails[CHOOSE i \in 1..Len(Emails) : Emails[i] = e] ELSE e
toLowerCase(e) ==
  IF \E i \in 1..Len(Emails) : UpperEmails[i] = e
  THEN Emails[CHOOSE i \in 1..Len(Emails) : UpperEmails[i] = e] ELSE e

\* The passwords that are submitted.
SignupPassword == "pw1"
ChangedPassword == "pw2"
Passwords == {SignupPassword, ChangedPassword}

\* The salt bcrypt generates while the n-th request is served.
Salts == <<"s1", "s2", "s3", "s4", "s5", "s6">>

\* bcrypt.hashSync(password, 8) with the generated salt: the hash names the
\* cost and the salt and cannot be turned back into the password.
generateHash(password, salt) == "$2a$08$" \o salt \o "$" \o password

\* bcrypt.compareSync(password, this.password): the password hashed with the
\* salt of the stored hash is the stored hash.
validatePassword(user, password) ==
  \E i \in 1..Len(Salts) : user.password = generateHash(password, Salts[i])

Body(ty, fn, ln, bn, co, oc, ak) ==
  [email |-> Absent, password |-> Absent, type |-> ty, firstName |-> fn, lastName |-> ln,
   businessName |-> bn, country |-> co, stripeAccountId |-> Absent,
   onboardingComplete |-> oc, apiKey |-> ak]

ProfileBodies ==
  { Body("individual", "Ada", "Lovelace", Absent, Absent, Absent, Absent),
    Body("individual", "Ada", "", "", Absent, Absent, Absent),
    Body("individual", "Ada", "Lovelace", "Acme", Absent, Absent, Absent),
    Body("company", Absent, Absent, "Acme", Absent, Absent, Absent),
    Body("company", "Ada", "Lovelace", "Acme", Absent, Absent, Absent),
    Body("company", Absent, Absent, "Acme", "FR", Absent, Absent),
    Body("bogus", Absent, Absent, "Acme", Absent, Absent, Absent),
    Body(Absent, Absent, Absent, "Acme", Absent, Absent, Absent) }

\* Bodies that carry a field the signup form does not have.
ExtraBodies ==
  { Body("company", Absent, Absent, "Acme", Absent, "true", Absent),
    Body("company", Absent, Absent, "Acme", Absent, Absent, "k0"),
    Body("company", Absent, Absent, "Acme", Absent, Absent, "k1"),
    [Body("company", Absent, Absent, "Acme", Absent, Absent, Absent)
       EXCEPT !.password = "pw2"] }

UpdateBodies == ProfileBodies \cup ExtraBodies

SignupTypes == {Absent, "individual", "company"}

VARIABLES
  vendors,        \* the ServiceVendor collection, in creation order
  createdApiKey,  \* per vendor, the apiKey assigned when it was created
  session,        \* the vendor of the browser's session, 0 when logged out
  accounts,       \* how many accounts the provider has created
  customers,      \* how many Customer records exist
  offerings,      \* the Offering collection, in creation order
  offeringDoc,    \* the in-memory Offering document of the last payment request
  route,          \* the request served last
  request,        \* what the last request carried: API key, body fields
  step,           \* the wizard step rendered by the last GET /signup
  calls,          \* the provider calls of the last request, in order
  responses,      \* the responses the last request wrote, in order
  nreq,           \* how many requests were served
  pending         \* the requests in flight, each suspended at an await

vars == <<vendors, createdApiKey, session, accounts, customers, offerings,
          offeringDoc, route, request, step, calls, responses, nreq, pending>>

VendorIds == 1..Len(vendors)

\* A stored document without `type` is hydrated with the schema default.
Hydrate(v) == [v EXCEPT !.type = IF v.type = Null THEN DefaultType ELSE v.type]

\* req.user: passport.deserializeUser loads the vendor of the session.
NoUser == [anonymous |-> TRUE]
reqUser == IF session = 0 THEN NoUser ELSE Hydrate(vendors[session])

\* A request of which the model keeps no input.
NoInput == [none |-> TRUE]

Init ==
  /\ vendors = <<>>
  /\ createdApiKey = <<>>
  /\ session = 0
  /\ accounts = 0
  /\ customers = 0
  /\ offerings = <<>>
  /\ offeringDoc = <<>>
  /\ route = "none"
  /\ request = NoInput
  /\ step = Null
  /\ calls = <<>>
  /\ responses = <<>>
  /\ nreq = 0
  /\ pending = <<>>

\* What every request served from start to end does to the per-request
\* variables; no other request is in flight.
ServedWith(r, input, cs, rs) ==
  /\ nreq < MaxRequests
  /\ nreq' = nreq + 1
  /\ route' = r
  /\ request' = input
  /\ calls' = cs
  /\ responses' = rs
  /\ UNCHANGED pending

Served(r, cs, rs) == ServedWith(r, NoInput, cs, rs)

Redirect(url) == [status |-> 302, to |-> url]
Render(view, st) == [status |-> 200, to |-> view, step |-> st]
Status(code) == [status |-> code]
Json(code, body) == [status |-> code, json |-> body]

\* req.isAuthenticated(): passport.session() has loaded the vendor of the
\* session.  No strategy reads the request's headers on these routes.
isAuthenticated == session # 0

\* What a request without a session presents in its Authorization header:
\* nothing, or the API key of a vendor.
GatedHeaders == {Absent} \cup {vendors[v].apiKey : v \in VendorIds}

\* The middleware answering an unauthenticated request with a server error.
LoginRedirect_ServerError(r) ==
  \E apiKey \in GatedHeaders :
    /\ ServedWith(r, [apiKey |-> apiKey], <<>>, <<Status(500)>>)
    /\ UNCHANGED <<vendors, createdApiKey, session, accounts, customers,
                   offerings, offeringDoc, step>>

\* serviceVendorRequired: an unauthenticated request is sent to the login page.
LoginRedirect(r) ==
  \E apiKey \in GatedHeaders :
    /\ ServedWith(r, [apiKey |-> apiKey], <<>>,
                  <<Redirect("/serviceVendors/login")>>)
    /\ UNCHANGED <<vendors, createdApiKey, session, accounts, customers,
                   offerings, offeringDoc, step>>

\* ------------------------------------------------ GET /serviceVendors/signup
\* The step with `&&` for `||` between the two names of an individual.
onboardingStep_BothNamesMissing(user) ==
  IF user = NoUser THEN "account"
  ELSE IF (IF user.type = "individual"
           THEN Falsy(user.firstName) /\ Falsy(user.lastName)
           ELSE Falsy(user.businessName))
       THEN "profile"
  ELSE IF Falsy(user.onboardingComplete) THEN "payments"
  ELSE "done"

onboardingStep(user) ==
  IF user = NoUser THEN "account"
  ELSE IF (IF user.type = "individual"
           THEN Falsy(user.firstName) \/ Falsy(user.lastName)
           ELSE Falsy(user.businessName))
       THEN "profile"
  ELSE IF Falsy(user.onboardingComplete) THEN "payments"
  ELSE "done"

GetSignup ==
  /\ Served("GET /signup", <<>>, <<Render("signup", onboardingStep(reqUser))>>)
  /\ step' = onboardingStep(reqUser)
  /\ UNCHANGED <<vendors, createdApiKey, session, accounts, customers,
                 offerings, offeringDoc>>

\* ----------------------------------------------- ServiceVendor persistence
\* ServiceVendorEmailValiidator: a new or changed email must not be in use.
ServiceVendorEmailValiidator(email, checked) ==
  checked => ~ \E i \in VendorIds : vendors[i].email = email

\* Schema validation run by save(): email is required and validated, type is
\* one of the enum's values when it is set.
Validates(doc, emailModified) ==
  /\ doc.email # Null
  /\ doc.password \notin {Null, ""}
  /\ ServiceVendorEmailValiidator(doc.email, emailModified)
  /\ doc.type \in VendorTypes \cup {Null}
  /\ doc.onboardingComplete \in {Null, True, False}

\* The unique indexes of email and apiKey, checked against the other documents.
UniqueAmong(doc, self) ==
  \A i \in VendorIds \ {self} :
    vendors[i].email # doc.email /\ vendors[i].apiKey # doc.apiKey

\* The first half of ServiceVendorSchema.pre('save'): blank the fields of the
\* other type, but only when `type` was modified.
blankOtherType(doc, modifiedType) ==
  IF modifiedType
  THEN IF doc.type = "individual"
       THEN [doc EXCEPT !.businessName = Null]
       ELSE [doc EXCEPT !.firstName = Null, !.lastName = Null]
  ELSE doc

\* The hook hashing the password on every save.
preSave_AlwaysHashes(doc, modifiedType, modifiedPassword, salt) ==
  [blankOtherType(doc, modifiedType)
     EXCEPT !.password = generateHash(@, salt)]

\* ServiceVendorSchema.pre('save'): the fields of the other type, then the
\* password, which is hashed when it was modified.
preSave(doc, modifiedType, modifiedPassword, salt) ==
  IF modifiedPassword
  THEN [blankOtherType(doc, modifiedType)
          EXCEPT !.password = generateHash(@, salt)]
  ELSE blankOtherType(doc, modifiedType)

\* save() of a loaded document also writes a default that hydration applied.
persistDefaults(doc) == Hydrate(doc)

\* ----------------------------------------------- POST /serviceVendors/signup
\* new ServiceVendor({email, password, apiKey, type, stripeAccountId}); the
\* body carries a password, and an undefined type leaves the schema default.
NewVendor(body, key) ==
  [email |-> IF body.email = Absent THEN Null ELSE body.email,
   password |-> IF body.password = Absent THEN Null ELSE body.password,
   type |-> IF body.type = Absent THEN DefaultType ELSE body.type,
   firstName |-> Null, lastName |-> Null, businessName |-> Null,
   country |-> DefaultCountry,
   stripeAccountId |-> IF body.stripeAccountId = Absent THEN Null
                       ELSE body.stripeAccountId,
   onboardingComplete |-> Null,
   apiKey |-> key]

\* The account step: no vendor is logged in, one is created and logged in.
SignupCreate(body, key) ==
  LET doc == NewVendor(body, key)
      saved == preSave(doc, body.type # Absent, body.password # Absent,
                       Salts[nreq + 1])
      input == [email |-> body.email, password |-> body.password]
  IN  IF ~Validates(doc, TRUE)
      THEN \* ValidationError: the form is rendered again with the message
           /\ ServedWith("POST /signup", input, <<>>,
                         <<Render("signup", "account")>>)
           /\ UNCHANGED <<vendors, createdApiKey, session>>
      ELSE IF ~UniqueAmong(doc, 0)
      THEN \* duplicate key: the error has no `errors`, the catch block throws
           /\ ServedWith("POST /signup", input, <<>>, <<>>)
           /\ UNCHANGED <<vendors, createdApiKey, session>>
      ELSE /\ Len(vendors) < MaxVendors
           /\ ServedWith("POST /signup", input, <<>>,
                         <<Redirect("/serviceVendors/signup")>>)
           /\ vendors' = Append(vendors, saved)
           /\ createdApiKey' = Append(createdApiKey, key)
           /\ session' = Len(vendors) + 1

\* Document.set of one path: the body's value when the body carries it.
SetPath(old, new) == IF new = Absent THEN old ELSE new

\* serviceVendor.set(body): every schema path the body carries is assigned
\* (onboardingComplete cast to Boolean); `type` is always assigned, from
\* 'serviceVendor-type', undefined when that is missing.
setBody(doc, body) ==
  [email |-> SetPath(doc.email, body.email),
   password |-> SetPath(doc.password, body.password),
   type |-> IF body.type = Absent THEN Null ELSE body.type,
   firstName |-> SetPath(doc.firstName, body.firstName),
   lastName |-> SetPath(doc.lastName, body.lastName),
   businessName |-> SetPath(doc.businessName, body.businessName),
   country |-> SetPath(doc.country, body.country),
   stripeAccountId |-> SetPath(doc.stripeAccountId, body.stripeAccountId),
   onboardingComplete |-> SetPath(doc.onboardingComplete, body.onboardingComplete),
   apiKey |-> SetPath(doc.apiKey, body.apiKey)]

\* isModified('type') after set(body).  A stored type is modified by any other
\* value; a type that hydration defaulted is modified by any defined value.
typeModified(stored, body) ==
  IF stored.type = Null THEN body.type # Absent
  ELSE body.type = Absent \/ body.type # stored.type

\* isModified('password') after set(body): the body carries another value
\* than the stored one.
passwordModified(stored, body) ==
  body.password # Absent /\ body.password # stored.password

\* The profile step: the logged-in vendor is updated from the body.
SignupUpdate(body) ==
  LET stored == vendors[session]
      doc == setBody(Hydrate(stored), body)
      saved == preSave(doc, typeModified(stored, body),
                       passwordModified(stored, body), Salts[nreq + 1])
      input == [email |-> body.email, password |-> body.password]
  IN  IF Validates(doc, doc.email # stored.email) /\ UniqueAmong(doc, session)
      THEN /\ ServedWith("POST /signup", input, <<>>,
                          <<Redirect("/serviceVendors/stripe/authorize")>>)
           /\ vendors' = [vendors EXCEPT ![session] = saved]
           /\ UNCHANGED <<createdApiKey, session>>
      ELSE \* save() rejects: next(err)
           /\ ServedWith("POST /signup", input, <<>>, <<Status(500)>>)
           /\ UNCHANGED <<vendors, createdApiKey, session>>

PostSignup ==
  /\ nreq < MaxRequests
  /\ IF session = 0
     THEN \E ty \in SignupTypes,
             e \in {Absent, Emails[Len(vendors) + 1]}
                    \cup {vendors[i].email : i \in VendorIds}
                    \cup {toUpperCase(vendors[i].email) : i \in VendorIds},
             pw \in {Absent, SignupPassword},
             key \in {GeneratedKeys[Len(vendors) + 1]}
                      \cup {vendors[i].apiKey : i \in VendorIds} :
            \* a form without password, and one with an email that is in
            \* use, carry no type and meet no key that is in use
            /\ (pw = Absent \/ e \notin {Absent, Emails[Len(vendors) + 1]}) =>
                 /\ ty = Absent
                 /\ key = GeneratedKeys[Len(vendors) + 1]
            /\ pw = Absent => e = Emails[Len(vendors) + 1]
            /\ SignupCreate([Body(ty, Absent, Absent, Absent, Absent, Absent, Absent)
                               EXCEPT !.email = e, !.password = pw], key)
     ELSE \E body \in UpdateBodies : SignupUpdate(body)
  /\ UNCHANGED <<accounts, customers, offerings, offeringDoc, step>>

\* -------------------------------------- POST /login and GET /logout
\* passport 'serviceVendor-login': the vendor of the email, when the password
\* validates.
\* ServiceVendor.findOne({email}), 0 for null.
findByEmail(email) ==
  IF \E v \in VendorIds : vendors[v].email = email
  THEN CHOOSE v \in VendorIds : vendors[v].email = email
  ELSE 0

PostLogin ==
  /\ nreq < MaxRequests
  /\ \E email \in {vendors[i].email : i \in VendorIds}
                  \cup {toUpperCase(vendors[i].email) : i \in VendorIds},
        password \in Passwords :
    LET v == findByEmail(email)
        valid == v # 0 /\ validatePassword(vendors[v], password)
    IN
    /\ ServedWith("POST /login", [email |-> email, password |-> password], <<>>,
              <<Redirect(IF valid THEN "/serviceVendors/dashboard"
                         ELSE "/serviceVendors/login")>>)
    /\ session' = IF valid THEN v ELSE session
    /\ UNCHANGED <<vendors, createdApiKey, accounts, customers, offerings,
                   offeringDoc, step>>

GetLogout ==
  /\ Served("GET /logout", <<>>, <<Redirect("/")>>)
  /\ session' = 0
  /\ UNCHANGED <<vendors, createdApiKey, accounts, customers, offerings,
                 offeringDoc, step>>

\* ------------------------------------ GET /serviceVendors/stripe/authorize
\* js `x || undefined`
OrUndefined(x) == IF Falsy(x) THEN Null ELSE x

\* The parameters of stripe.accounts.create for the vendor.
accountParams(user) ==
  LET business_type == IF Falsy(user.type) THEN "individual" ELSE user.type
  IN  IF business_type = "company"
      THEN [api |-> "accounts.create", type |-> "express",
            country |-> OrUndefined(user.country),
            email |-> OrUndefined(user.email),
            business_type |-> business_type,
            company |-> [name |-> OrUndefined(user.businessName)]]
      ELSE [api |-> "accounts.create", type |-> "express",
            country |-> OrUndefined(user.country),
            email |-> OrUndefined(user.email),
            business_type |-> business_type,
            individual |-> [first_name |-> OrUndefined(user.firstName),
                            last_name |-> OrUndefined(user.lastName),
                            email |-> OrUndefined(user.email)]]

accountLinkParams(accountId) ==
  [api |-> "accountLinks.create", account |-> accountId,
   refresh_url |-> "/serviceVendors/stripe/authorize",
   return_url |-> "/serviceVendors/stripe/onboarded",
   type |-> "account_onboarding"]

\* The account id kept in req.user only, the save left out.
storeAccountId_NotSaved(user, accountId) == user

\* req.user.stripeAccountId = accountId; await req.user.save()
storeAccountId(user, accountId) ==
  persistDefaults([user EXCEPT !.stripeAccountId = accountId])

GetAuthorize ==
  /\ nreq < MaxRequests
  /\ IF ~isAuthenticated THEN LoginRedirect("GET /stripe/authorize")
     ELSE
       \E createOk \in BOOLEAN, linkOk \in BOOLEAN :
         LET user == reqUser
             create == user.stripeAccountId = Null
             accountId == IF create THEN AccountIds[accounts + 1]
                          ELSE user.stripeAccountId
             createCall == <<[params |-> accountParams(user), ok |-> createOk]>>
             linkCall == <<[params |-> accountLinkParams(accountId), ok |-> linkOk]>>
         IN  /\ create => accounts < Len(AccountIds)
             /\ ~create => createOk
             /\ IF create /\ ~createOk
                THEN /\ Served("GET /stripe/authorize", createCall, <<Status(500)>>)
                     /\ UNCHANGED <<vendors, accounts>>
                ELSE /\ Served("GET /stripe/authorize",
                               (IF create THEN createCall ELSE <<>>) \o linkCall,
                               <<IF linkOk THEN Redirect("accountLink.url")
                                 ELSE Status(500)>>)
                     /\ accounts' = IF create THEN accounts + 1 ELSE accounts
                     /\ vendors' = IF create
                                   THEN [vendors EXCEPT ![session] =
                                           storeAccountId(@, accountId)]
                                   ELSE vendors
             /\ UNCHANGED <<createdApiKey, session, customers, offerings,
                            offeringDoc, step>>

\* ------------------------------------ GET /serviceVendors/stripe/onboarded
productParams(accountId) ==
  [api |-> "products.create", name |-> "Bescheinigung",
   unit_amount |-> 2000, currency |-> "eur", stripeAccount |-> accountId]

\* Onboarding completed without asking what the provider reports.
finalize_IgnoresProvider(user, details_submitted) ==
  persistDefaults([user EXCEPT !.onboardingComplete = True])

\* if (account.details_submitted) { req.user.onboardingComplete = true;
\* await req.user.save() }; nothing is written otherwise.
finalize(user, details_submitted) ==
  IF details_submitted
  THEN persistDefaults([user EXCEPT !.onboardingComplete = True])
  ELSE user

GetOnboarded ==
  /\ nreq < MaxRequests
  /\ IF ~isAuthenticated THEN LoginRedirect("GET /stripe/onboarded")
     ELSE
       \E retrieveOk \in BOOLEAN, details_submitted \in BOOLEAN, productOk \in BOOLEAN :
         LET user == reqUser
             retrieve == [params |-> [api |-> "account.retrieve",
                                      account |-> user.stripeAccountId],
                          ok |-> retrieveOk,
                          details_submitted |-> details_submitted]
             product == [params |-> productParams(user.stripeAccountId),
                         ok |-> productOk]
         IN  /\ ~retrieveOk => ~details_submitted /\ productOk
             /\ ~details_submitted => productOk
             /\ IF ~retrieveOk
                THEN /\ Served("GET /stripe/onboarded", <<retrieve>>, <<Status(500)>>)
                     /\ UNCHANGED vendors
                ELSE IF details_submitted
                THEN /\ Served("GET /stripe/onboarded", <<retrieve, product>>,
                               <<IF productOk
                                 THEN Redirect("/serviceVendors/dashboard")
                                 ELSE Status(500)>>)
                     /\ vendors' = [vendors EXCEPT ![session] =
                                      finalize(@, details_submitted)]
                ELSE /\ Served("GET /stripe/onboarded", <<retrieve>>,
                               <<Redirect("/serviceVendors/signup")>>)
                     /\ vendors' = [vendors EXCEPT ![session] =
                                      finalize(@, details_submitted)]
             /\ UNCHANGED <<createdApiKey, session, accounts, customers,
                            offerings, offeringDoc, step>>

\* ------------------------------------------- JS values of a request body
\* A body field of the payment-link and offering requests is undefined, a
\* string (kept as its characters) or a number; a number is NaN or the
\* fraction num / den with den the least power of ten that makes num an
\* integer.  The amount of an offering is such a number.
Undefined == [kind |-> "undefined"]
Text(chars) == [kind |-> "string", chars |-> chars]
NaN == [kind |-> "number", nan |-> TRUE, num |-> 0, den |-> 1]

RECURSIVE Num(_, _)
Num(n, d) ==
  IF d > 1 /\ n % 10 = 0 THEN Num(n \div 10, d \div 10)
  ELSE [kind |-> "number", nan |-> FALSE, num |-> n, den |-> d]

DigitChars == <<"0", "1", "2", "3", "4", "5", "6", "7", "8", "9">>
IsDigit(c) == \E i \in 1..10 : DigitChars[i] = c
DigitValue(c) == (CHOOSE i \in 1..10 : DigitChars[i] = c) - 1
WhiteSpace == {" ", "\t"}

RECURSIVE TrimLeft(_)
TrimLeft(cs) ==
  IF cs # <<>> /\ Head(cs) \in WhiteSpace THEN TrimLeft(Tail(cs)) ELSE cs

RECURSIVE TrimRight(_)
TrimRight(cs) ==
  IF cs # <<>> /\ cs[Len(cs)] \in WhiteSpace
  THEN TrimRight(SubSeq(cs, 1, Len(cs) - 1)) ELSE cs

\* How many decimal digits the characters start with.
RECURSIVE LeadingDigits(_)
LeadingDigits(cs) ==
  IF cs # <<>> /\ IsDigit(Head(cs)) THEN 1 + LeadingDigits(Tail(cs)) ELSE 0

\* The value of a sequence of decimal digits.
RECURSIVE Decimal(_)
Decimal(cs) ==
  IF cs = <<>> THEN 0
  ELSE 10 * Decimal(SubSeq(cs, 1, Len(cs) - 1)) + DigitValue(cs[Len(cs)])

RECURSIVE Pow10(_)
Pow10(n) == IF n = 0 THEN 1 ELSE 10 * Pow10(n - 1)

\* Number(string) for decimal literals: white space is trimmed, the empty
\* string is 0, a signed literal with an optional fraction is its value, and
\* anything else is NaN.
StringToNumber(chars) ==
  LET t == TrimRight(TrimLeft(chars))
      signed == t # <<>> /\ Head(t) \in {"+", "-"}
      sign == IF signed /\ Head(t) = "-" THEN -1 ELSE 1
      u == IF signed THEN Tail(t) ELSE t
      n == LeadingDigits(u)
      rest == SubSeq(u, n + 1, Len(u))
      hasDot == rest # <<>> /\ Head(rest) = "."
      frac == IF hasDot THEN Tail(rest) ELSE <<>>
      m == LeadingDigits(frac)
  IN  IF t = <<>> THEN Num(0, 1)
      ELSE IF (IF hasDot THEN m = Len(frac) /\ n + m > 0
               ELSE rest = <<>> /\ n > 0)
      THEN Num(sign * (Decimal(SubSeq(u, 1, n)) * Pow10(m) + Decimal(frac)),
               Pow10(m))
      ELSE NaN

\* ToNumber, as applied by isNaN, by <= and by *.
ToNumber(v) ==
  IF v.kind = "undefined" THEN NaN
  ELSE IF v.kind = "string" THEN StringToNumber(v.chars)
  ELSE v

isNaN(v) == ToNumber(v).nan

\* v <= 0, which is false for NaN
AtMostZero(v) == LET n == ToNumber(v) IN ~n.nan /\ n.num <= 0

\* v * k
Times(v, k) ==
  LET n == ToNumber(v) IN IF n.nan THEN NaN ELSE Num(n.num * k, n.den)

\* a + b for two numbers, which is NaN when one of them is
Plus(a, b) ==
  IF a.nan \/ b.nan THEN NaN
  ELSE Num(a.num * b.den + b.num * a.den, a.den * b.den)

\* !v
Not(v) ==
  IF v.kind = "undefined" THEN TRUE
  ELSE IF v.kind = "string" THEN v.chars = <<>>
  ELSE v.nan \/ v.num = 0

\* parseInt(v): the decimal digits that follow optional white space and a
\* sign in String(v), NaN when there is none; for a number, String(v) is its
\* decimal notation, so the result is v without its fraction.
parseIntOf(v) ==
  IF v.kind = "undefined" THEN NaN
  ELSE IF v.kind = "number"
  THEN IF v.nan THEN NaN
       ELSE Num((IF v.num < 0 THEN -1 ELSE 1)
                  * ((IF v.num < 0 THEN -v.num ELSE v.num) \div v.den), 1)
  ELSE LET t == TrimLeft(v.chars)
           signed == t # <<>> /\ Head(t) \in {"+", "-"}
           sign == IF signed /\ Head(t) = "-" THEN -1 ELSE 1
           u == IF signed THEN Tail(t) ELSE t
           n == LeadingDigits(u)
       IN  IF n = 0 THEN NaN ELSE Num(sign * Decimal(SubSeq(u, 1, n)), 1)

\* ---------------------------------------------------------- Customer model
\* insertDefaultCustomers creates five customers, each with a provider call.
DefaultCustomers == 5
\* How many of them are inserted before a provider call fails (all: none fails).
SeedOutcomes == {0, 2, DefaultCustomers}

\* Math.floor(Math.random() * n) for Math.random() = k / RandomDenominator
RandomBelow(n, k) == (k * n) \div RandomDenominator

\* Customer.getRandom: seeds the collection when it is empty, then skips a
\* random number of documents below the count taken BEFORE the seeding.
\* The result is the position of the customer found, 0 for none.
getRandom(count, seeded, k) ==
  LET after == IF count = 0 THEN seeded ELSE count
      random == RandomBelow(count, k)
  IN  IF random + 1 <= after THEN random + 1 ELSE 0

\* ---------------------------------------------------------- Offering model
\* The paths of OfferingSchema that the model keeps.
OfferingPaths == {"serviceVendor", "customer", "amount", "currency",
                  "stripePaymentIntentId"}
DefaultCurrency == "eur"

\* save(): only the paths of the schema are written to the collection.
saveOffering(doc) == [f \in OfferingPaths |-> doc[f]]

\* The payout with the 20% added to the amount instead of taken from it.
amountForServiceVendor_FeeAdded(offering) ==
  LET n == parseIntOf(offering.amount)
  IN  IF n.nan THEN NaN ELSE Num((n.num * 12) \div 10, 1)

\* OfferingSchema.methods.amountForServiceVendor
amountForServiceVendor(offering) == parseIntOf(offering.amount)

\* ----------------------------------------------- POST /serviceVendors/offerings
MinAmount == 1000
MaxAmount == 10000

\* getRandomInt(min, max) for Math.random() = k / RandomDenominator
getRandomInt(min, max, k) == RandomBelow(max - min + 1, k) + min

\* getTestSource is only called for the two behaviours of the request body.
Behaviours == {"none", "immediate_balance", "payout_limit"}
getTestSource(behavior) ==
  IF behavior = "immediate_balance" THEN "tok_bypassPending"
  ELSE IF behavior = "payout_limit" THEN "tok_visa_triggerTransferBlock"
  ELSE "tok_visa"
testSource(behavior) ==
  IF behavior = "none" THEN Null ELSE getTestSource(behavior)

\* The destination charge without the vendor's account as destination.
destinationCharge_NoDestination(offering, serviceVendor, source) ==
  [api |-> "charges.create", source |-> source,
   amount |-> offering.amount, currency |-> offering.currency,
   description |-> appName, statement_descriptor |-> appName,
   on_behalf_of |-> serviceVendor.stripeAccountId,
   transfer_data |-> [amount |-> amountForServiceVendor(offering),
                      destination |-> Null]]

\* The destination charge of the DE path.
destinationCharge(offering, serviceVendor, source) ==
  [api |-> "charges.create", source |-> source,
   amount |-> offering.amount, currency |-> offering.currency,
   description |-> appName, statement_descriptor |-> appName,
   on_behalf_of |-> serviceVendor.stripeAccountId,
   transfer_data |-> [amount |-> amountForServiceVendor(offering),
                      destination |-> serviceVendor.stripeAccountId]]

\* The platform charge and the transfer of the other countries' path.
separateCharge(offering, source) ==
  [api |-> "charges.create", source |-> source,
   amount |-> offering.amount, currency |-> offering.currency,
   description |-> appName, statement_descriptor |-> appName,
   transfer_group |-> offering.id]

separateTransfer(offering, serviceVendor) ==
  [api |-> "transfers.create",
   amount |-> amountForServiceVendor(offering), currency |-> offering.currency,
   destination |-> serviceVendor.stripeAccountId,
   transfer_group |-> offering.id]

\* The calls when the charge is not awaited: the transfer is issued whether or
\* not the charge succeeded.
paymentCalls_ChargeNotAwaited(offering, serviceVendor, source, chargeOk, transferOk) ==
  IF serviceVendor.country = "DE"
  THEN <<[params |-> destinationCharge(offering, serviceVendor, source),
          ok |-> chargeOk]>>
  ELSE <<[params |-> separateCharge(offering, source), ok |-> chargeOk],
         [params |-> separateTransfer(offering, serviceVendor),
          ok |-> transferOk]>>

\* The provider calls of the try block, in order, each with its outcome; a
\* failed call throws, so no call follows it.
paymentCalls(offering, serviceVendor, source, chargeOk, transferOk) ==
  IF serviceVendor.country = "DE"
  THEN <<[params |-> destinationCharge(offering, serviceVendor, source),
          ok |-> chargeOk]>>
  ELSE <<[params |-> separateCharge(offering, source), ok |-> chargeOk]>>
       \o (IF chargeOk
           THEN <<[params |-> separateTransfer(offering, serviceVendor),
                   ok |-> transferOk]>>
           ELSE <<>>)

AllOk(cs) == \A i \in 1..Len(cs) : cs[i].ok

\* The responses with the catch block not sending the 402.
paymentResponses_No402(ok) == <<Redirect("/serviceVendors/dashboard")>>

\* What the handler writes to the response: the catch block sends 402 and
\* does not return, so the redirect after the try statement follows it.
paymentResponses(ok) ==
  IF ok THEN <<Redirect("/serviceVendors/dashboard")>>
  ELSE <<Status(402), Redirect("/serviceVendors/dashboard")>>

\* offering.stripeChargeId = charge.id
attachCharge(doc, chargeId) ==
  [f \in DOMAIN doc \cup {"stripeChargeId"} |->
     IF f = "stripeChargeId" THEN chargeId ELSE doc[f]]

seedCalls(count, seeded) ==
  IF count # 0 THEN <<>>
  ELSE [i \in 1..(IF seeded < DefaultCustomers THEN seeded + 1 ELSE seeded) |->
          [params |-> [api |-> "customers.create"], ok |-> i <= seeded]]

PostOfferings ==
  /\ nreq < MaxRequests
  /\ IF ~isAuthenticated THEN LoginRedirect("POST /offerings")
     ELSE
       \E seeded \in SeedOutcomes, kc \in RandomSamples, ka \in RandomSamples,
          behavior \in Behaviours, chargeOk \in BOOLEAN, transferOk \in BOOLEAN :
         LET serviceVendor == reqUser
             customer == getRandom(customers, seeded, kc)
             offering == [id |-> Len(offerings) + 1,
                          serviceVendor |-> session,
                          customer |-> customer,
                          amount |-> Num(getRandomInt(MinAmount, MaxAmount, ka), 1),
                          currency |-> DefaultCurrency,
                          stripePaymentIntentId |-> Null]
             pay == paymentCalls(offering, serviceVendor, testSource(behavior),
                                 chargeOk, transferOk)
             final == IF AllOk(pay)
                      THEN attachCharge(offering, ChargeIds[offering.id])
                      ELSE offering
         IN  /\ customers # 0 => seeded = DefaultCustomers
             /\ customers' = IF customers = 0 THEN seeded ELSE customers
             /\ IF customer = 0
                THEN \* customer is null: customer.id throws before the offering
                     /\ kc = 4 /\ ka = 4 /\ behavior = "none"
                     /\ chargeOk /\ transferOk
                     /\ Served("POST /offerings", seedCalls(customers, seeded), <<>>)
                     /\ UNCHANGED <<offerings, offeringDoc>>
                ELSE /\ Len(offerings) < MaxOfferings
                     /\ ~(serviceVendor.country # "DE" /\ chargeOk) => transferOk
                     \* a test behaviour is requested with one amount, and paid
                     /\ behavior # "none" => (ka = 4 /\ chargeOk /\ transferOk)
                     /\ Served("POST /offerings",
                               seedCalls(customers, seeded) \o pay,
                               paymentResponses(AllOk(pay)))
                     /\ offerings' = Append(offerings, saveOffering(final))
                     /\ offeringDoc' = <<final>>
             /\ UNCHANGED <<vendors, createdApiKey, session, accounts, step>>

\* --------------------------------------------------------- POST /api/offerings
\* The amounts a client sends: 2000, -500, 1.5, 'abc' and none.
ValidAmount == Num(2000, 1)
AmountInputs ==
  { ValidAmount, Num(-500, 1), Num(15, 10), Text(<<"a", "b", "c">>),
    Undefined }
CurrencyInputs == {Absent, "usd"}

\* Mongoose's cast of a value to the Number path `amount`: null and undefined
\* stay, '' is null, a string is Number(string), and NaN is a cast error.
castNumber(v) ==
  IF v.kind = "undefined" THEN Undefined
  ELSE IF v.kind = "string" /\ v.chars = <<>> THEN Undefined
  ELSE ToNumber(v)
CastError(v) == castNumber(v).kind = "number" /\ castNumber(v).nan

\* ServiceVendor.getFirstOnboarded: the oldest vendor that has an account id,
\* 0 for none.
getFirstOnboarded ==
  IF \E v \in VendorIds : vendors[v].stripeAccountId # Null
  THEN CHOOSE v \in VendorIds :
         /\ vendors[v].stripeAccountId # Null
         /\ \A w \in 1..(v - 1) : vendors[w].stripeAccountId = Null
  ELSE 0

\* Customer.getLatest: seeds the collection when it is empty, then takes the
\* customer created last.  The result is its position, 0 for none.
getLatest(count, seeded) == IF count = 0 THEN seeded ELSE count

\* What stripe.paymentMethods.list answers: a card, no card, or an error.
ListOutcomes == {"card", "empty", "error"}

PaymentIntentIds == <<"pi_1", "pi_2", "pi_3">>
PlatformFee == 300

\* The parameters of stripe.paymentIntents.create.
paymentIntentParams(offering, serviceVendor, customer) ==
  [api |-> "paymentIntents.create",
   amount |-> offering.amount, currency |-> offering.currency,
   description |-> appName, statement_descriptor |-> appName,
   customer |-> customer, payment_method |-> "pm_1", confirm |-> TRUE,
   application_fee_amount |-> PlatformFee,
   transfer_data |-> [amount |-> amountForServiceVendor(offering),
                      destination |-> serviceVendor.stripeAccountId]]

\* offering.stripePaymentIntentId = paymentIntent.id
attachPaymentIntent(doc, id) == [doc EXCEPT !.stripePaymentIntentId = id]

\* The handler is not authenticated.  Everything that throws in the try block
\* is answered with 500.
PostApiOfferings ==
  /\ nreq < MaxRequests
  /\ \E amount \in AmountInputs, currency \in CurrencyInputs,
        seeded \in {0, DefaultCustomers}, listed \in ListOutcomes,
        intentOk \in BOOLEAN :
       LET r == "POST /api/offerings"
           input == [amount |-> amount, currency |-> currency]
           v == getFirstOnboarded
           customer == getLatest(customers, seeded)
           seeding == seedCalls(customers, seeded)
           offering == [id |-> Len(offerings) + 1,
                        serviceVendor |-> v,
                        customer |-> customer,
                        amount |-> castNumber(amount),
                        currency |-> IF currency = Absent THEN DefaultCurrency
                                     ELSE currency,
                        stripePaymentIntentId |-> Null]
           list == [params |-> [api |-> "paymentMethods.list",
                                customer |-> customer, type |-> "card"],
                    ok |-> listed # "error"]
           intent == [params |-> paymentIntentParams(offering,
                                   Hydrate(vendors[v]), customer),
                      ok |-> intentOk]
           paid == attachPaymentIntent(offering, PaymentIntentIds[offering.id])
           plain == /\ amount = ValidAmount /\ currency = Absent
       IN  /\ customers # 0 => seeded = DefaultCustomers
           /\ customers' = IF customers = 0 THEN seeded ELSE customers
           \* the calls before the payment intent fail for one of the bodies only
           /\ ~(seeded = DefaultCustomers /\ listed = "card") => plain
           /\ currency # Absent => amount = ValidAmount
           /\ IF v = 0 \/ customer = 0 \/ CastError(amount)
              THEN /\ listed = "card" /\ intentOk
                   /\ ServedWith(r, input, seeding, <<Status(500)>>)
                   /\ UNCHANGED <<offerings, offeringDoc>>
              ELSE /\ Len(offerings) < MaxOfferings
                   /\ listed # "card" => intentOk
                   /\ IF listed # "card"
                      THEN /\ ServedWith(r, input, seeding \o <<list>>,
                                         <<Status(500)>>)
                           /\ offerings' = Append(offerings, saveOffering(offering))
                           /\ offeringDoc' = <<offering>>
                      ELSE IF ~intentOk
                      THEN /\ ServedWith(r, input, seeding \o <<list, intent>>,
                                         <<Status(500)>>)
                           /\ offerings' = Append(offerings, saveOffering(offering))
                           /\ offeringDoc' = <<offering>>
                      ELSE /\ ServedWith(r, input, seeding \o <<list, intent>>,
                                         <<Json(200, "serviceVendor")>>)
                           /\ offerings' = Append(offerings, saveOffering(paid))
                           /\ offeringDoc' = <<paid>>
           /\ UNCHANGED <<vendors, createdApiKey, session, accounts, step>>

\* ------------------------------------------------- API-key authentication
\* A key that no vendor has.
UnknownKey == "k9"
\* What a request presents in its Authorization header: nothing, a key that
\* no vendor has, or the key of a vendor.
PresentedKeys == {Absent, UnknownKey} \cup {vendors[v].apiKey : v \in VendorIds}
\* The same without the requests that have no header.
PresentedWithHeader == PresentedKeys \ {Absent}

\* A lookup that answers with the first vendor when no vendor has the key.
findByApiKey_FirstVendor(apiKey) ==
  IF \E v \in VendorIds : vendors[v].apiKey = apiKey
  THEN CHOOSE v \in VendorIds : vendors[v].apiKey = apiKey
  ELSE IF vendors # <<>> THEN 1 ELSE 0

\* AuthService.findByApiKey: ServiceVendor.findOne({ apiKey }), 0 for null.
findByApiKey(apiKey) ==
  IF \E v \in VendorIds : vendors[v].apiKey = apiKey
  THEN CHOOSE v \in VendorIds : vendors[v].apiKey = apiKey
  ELSE 0

\* The strategy accepting the vendor of the session when the request has no
\* Authorization header.
authenticate_SessionFallback(apiKey) ==
  IF apiKey = Absent THEN session ELSE findByApiKey(apiKey)

\* The ApiKeyStrategy: a request without the header fails, one with a key is
\* verified by the lookup.  The result is the vendor, 0 when it fails.
authenticate(apiKey) == IF apiKey = Absent THEN 0 ELSE findByApiKey(apiKey)

\* The handlers below leave every collection and the session alone.
StoreUnchanged ==
  UNCHANGED <<vendors, createdApiKey, session, accounts, customers,
              offerings, offeringDoc, step>>

\* passport answers a failed authentication with 401; the handler is not run.
Unauthorized(r, input) ==
  /\ ServedWith(r, input, <<>>, <<Status(401)>>)
  /\ StoreUnchanged

\* ------------------------------------------- GET /serviceVendors/offerings
GetOfferings ==
  /\ nreq < MaxRequests
  /\ \E apiKey \in PresentedKeys, listOk \in BOOLEAN :
    LET v == authenticate(apiKey)
        input == [apiKey |-> apiKey]
    IN  IF v = 0 THEN listOk /\ Unauthorized("GET /offerings", input)
        ELSE /\ ServedWith("GET /offerings", input,
                  <<[params |-> [api |-> "products.list",
                                 stripeAccount |-> Hydrate(vendors[v]).stripeAccountId],
                     ok |-> listOk]>>,
                  <<IF listOk THEN Json(200, "products")
                    ELSE Json(500, "Failed to create payment link")>>)
             /\ StoreUnchanged

\* ------------------------------------------------------ the payment links
\* The quantities the requests carry: none, '2', '0', '-1', 'abc' and '1.5'.
ValidQuantity == Text(<<"2">>)
QuantityInputs ==
  { Undefined, ValidQuantity, Text(<<"0">>), Text(<<"-", "1">>),
    Text(<<"a", "b", "c">>), Text(<<"1", ".", "5">>) }

ProductLinkBody(productId, unitPrice, quantity) ==
  [productId |-> productId, unitPrice |-> unitPrice, quantity |-> quantity]

ValidProductId == Text(<<"p", "r", "o", "d">>)
ValidUnitPrice == Text(<<"2", "0">>)

ProductLinkBodies ==
  { ProductLinkBody(ValidProductId, ValidUnitPrice, q) : q \in QuantityInputs }
    \cup { ProductLinkBody(Undefined, ValidUnitPrice, ValidQuantity),
           ProductLinkBody(ValidProductId, Text(<<"0">>), ValidQuantity) }

LinkBodies == { [priceId |-> "price_1", quantity |-> q] : q \in QuantityInputs }

\* The id of the price that prices.create returns.
CreatedPriceId == "price_new"

\* quantity || 1
quantityOrOne(quantity) == IF Not(quantity) THEN Num(1, 1) ELSE quantity

paymentLinkParams(price, quantity, stripeAccount) ==
  [api |-> "paymentLinks.create", price |-> price, quantity |-> quantity,
   stripeAccount |-> stripeAccount]

\* The two validations of /paymentLink/product: the message of the 400
\* response, Null when the body passes.
validateProductLink(body) ==
  IF \/ Not(body.productId) \/ Not(body.unitPrice)
     \/ isNaN(body.unitPrice) \/ AtMostZero(body.unitPrice)
  THEN "Invalid product ID or price"
  ELSE IF isNaN(body.quantity) \/ AtMostZero(body.quantity)
  THEN "Invalid quantity"
  ELSE Null

\* POST /serviceVendors/paymentLink/product
PostPaymentLinkProduct ==
  /\ nreq < MaxRequests
  /\ \E apiKey \in PresentedWithHeader, body \in ProductLinkBodies :
       LET v == authenticate(apiKey)
           input == [apiKey |-> apiKey, body |-> body]
           r == "POST /paymentLink/product"
           invalid == validateProductLink(body)
           stripeAccountId == Hydrate(vendors[v]).stripeAccountId
           price == [api |-> "prices.create",
                     unit_amount |-> Times(body.unitPrice, 100),
                     currency |-> "eur", product |-> body.productId,
                     stripeAccount |-> stripeAccountId]
           link == paymentLinkParams(CreatedPriceId,
                                     quantityOrOne(body.quantity),
                                     stripeAccountId)
       IN  IF v = 0
           THEN /\ body = ProductLinkBody(ValidProductId, ValidUnitPrice,
                                          ValidQuantity)
                /\ Unauthorized(r, input)
           ELSE IF invalid # Null
           THEN /\ ServedWith(r, input, <<>>, <<Json(400, invalid)>>)
                /\ StoreUnchanged
           ELSE \E priceOk \in BOOLEAN, linkOk \in BOOLEAN :
                  /\ ~priceOk => linkOk
                  \* the provider fails for one of the bodies only
                  /\ ~(priceOk /\ linkOk) => body.quantity = ValidQuantity
                  /\ ServedWith(r, input,
                       IF priceOk
                       THEN <<[params |-> price, ok |-> priceOk],
                              [params |-> link, ok |-> linkOk]>>
                       ELSE <<[params |-> price, ok |-> priceOk]>>,
                       <<IF priceOk /\ linkOk THEN Json(200, "paymentLink")
                         ELSE Json(500, "Failed to create payment link")>>)
                  /\ StoreUnchanged

\* POST /serviceVendors/stripe/paymentLink
PostStripePaymentLink ==
  /\ nreq < MaxRequests
  /\ IF ~isAuthenticated THEN LoginRedirect("POST /stripe/paymentLink")
     ELSE
       \E body \in LinkBodies, linkOk \in BOOLEAN :
         /\ ~linkOk => body.quantity = ValidQuantity
         /\ ServedWith("POST /stripe/paymentLink", [body |-> body],
              <<[params |-> paymentLinkParams(body.priceId,
                                              parseIntOf(body.quantity),
                                              reqUser.stripeAccountId),
                 ok |-> linkOk]>>,
              <<Redirect(IF linkOk
                         THEN "/serviceVendors/dashboard?paymentLink=url"
                         ELSE "/serviceVendors/dashboard")>>)
         /\ StoreUnchanged

\* POST /serviceVendors/paymentLink
PostPaymentLink ==
  /\ nreq < MaxRequests
  /\ \E apiKey \in PresentedWithHeader, body \in LinkBodies,
        linkOk \in BOOLEAN :
    LET v == authenticate(apiKey)
        input == [apiKey |-> apiKey, body |-> body]
    IN  IF v = 0
        THEN /\ linkOk
             /\ body.quantity = ValidQuantity
             /\ Unauthorized("POST /paymentLink", input)
        ELSE /\ ~linkOk => body.quantity = ValidQuantity
             /\ ServedWith("POST /paymentLink", input,
                  <<[params |-> paymentLinkParams(body.priceId, body.quantity,
                                   Hydrate(vendors[v]).stripeAccountId),
                     ok |-> linkOk]>>,
                  <<IF linkOk THEN Json(200, "paymentLink")
                    ELSE Json(500, "Failed to create payment link")>>)
             /\ StoreUnchanged

\* ------------------------------------------- GET /serviceVendors/dashboard
\* The products of the vendor's account as the provider lists them, each with
\* its price listing; default_price is the id of one of them or Null.
ListedPrices ==
  << [id |-> "price_a", unit_amount |-> 500],
     [id |-> "price_b", unit_amount |-> 300],
     [id |-> "price_c", unit_amount |-> 900] >>

ProductWithDefault ==
  [id |-> "prod_1", name |-> "Bescheinigung", default_price |-> "price_b",
   prices |-> ListedPrices]
ProductWithoutDefault ==
  [id |-> "prod_2", name |-> "Schluessel", default_price |-> Null,
   prices |-> ListedPrices]

Catalogs ==
  { <<ProductWithDefault>>, <<ProductWithoutDefault>>,
    <<ProductWithDefault, ProductWithoutDefault>> }

\* serviceVendor.listRecentOfferings(): the vendor's offerings, newest first
\* (every offering of the model is younger than a week).
RECURSIVE Reverse(_)
Reverse(q) == IF q = <<>> THEN <<>> ELSE Append(Reverse(Tail(q)), Head(q))
listRecentOfferings(v) ==
  Reverse(SelectSeq(offerings, LAMBDA o : o.serviceVendor = v))

\* offerings.reduce((a, b) => a + b.amountForServiceVendor(), 0)
RECURSIVE offeringsTotalAmount(_)
offeringsTotalAmount(q) ==
  IF q = <<>> THEN Num(0, 1)
  ELSE Plus(offeringsTotalAmount(SubSeq(q, 1, Len(q) - 1)),
            amountForServiceVendor(q[Len(q)]))

\* The two provider calls of the loop for one product.  prices.retrieve takes
\* the id as argument and rejects one that is not a string, so the call for a
\* product without default price throws.
priceCalls(product, stripeAccountId) ==
  << [params |-> [api |-> "prices.list", product |-> product.id,
                  stripeAccount |-> stripeAccountId],
      ok |-> TRUE],
     [params |-> [api |-> "prices.retrieve", stripeAccount |-> stripeAccountId,
                  price |-> product.default_price],
      ok |-> product.default_price # Null] >>

\* The provider calls of the handler when none is cut short.
RECURSIVE dashboardCalls(_, _)
dashboardCalls(products, stripeAccountId) ==
  IF products = <<>>
  THEN << [params |-> [api |-> "balance.retrieve",
                       stripeAccount |-> stripeAccountId], ok |-> TRUE],
          [params |-> [api |-> "products.list",
                       stripeAccount |-> stripeAccountId], ok |-> TRUE] >>
  ELSE dashboardCalls(SubSeq(products, 1, Len(products) - 1), stripeAccountId)
         \o priceCalls(products[Len(products)], stripeAccountId)

\* The price that prices.retrieve resolves with.
retrievePrice(product) ==
  product.prices[CHOOSE i \in 1..Len(product.prices) :
                   product.prices[i].id = product.default_price]

\* await stripe.prices.retrieve(product.default_price, ...) || prices.data[0]
\* where the retrieval has resolved: what it resolves with is an object, which
\* is truthy, so the right operand is not evaluated.
defaultPrice(product) == retrievePrice(product)

\* The entries of productsWithPrices.
productsWithPrices(products) ==
  [i \in 1..Len(products) |->
     [name |-> products[i].name, id |-> products[i].id,
      price |-> defaultPrice(products[i]).unit_amount,
      priceId |-> defaultPrice(products[i]).id]]

\* The first call that fails, 0 when none does.
FirstFailure(cs) ==
  IF AllOk(cs) THEN 0 ELSE CHOOSE i \in 1..Len(cs) :
                             ~cs[i].ok /\ \A j \in 1..(i - 1) : cs[j].ok

\* The handler has no try statement: a call that throws ends it without a
\* response.  failAt is the provider call that fails, 0 for none.
GetDashboard ==
  /\ nreq < MaxRequests
  /\ IF ~isAuthenticated THEN LoginRedirect("GET /dashboard")
     ELSE
       \E products \in Catalogs, failAt \in 0..4 :
         LET serviceVendor == reqUser
             planned == dashboardCalls(products, serviceVendor.stripeAccountId)
             answered == [i \in 1..Len(planned) |->
                            [planned[i] EXCEPT !.ok = @ /\ i # failAt]]
             failed == FirstFailure(answered)
             recent == listRecentOfferings(session)
         IN  /\ failAt <= (IF AllOk(planned) THEN Len(planned)
                           ELSE FirstFailure(planned))
             \* the provider fails for one of the catalogs only
             /\ failAt # 0 => products = <<ProductWithDefault>>
             /\ ServedWith("GET /dashboard",
                  [products |-> products, failAt |-> failAt],
                  IF failed = 0 THEN answered ELSE SubSeq(answered, 1, failed),
                  IF failed = 0
                  THEN <<[status |-> 200, to |-> "dashboard",
                          offeringsTotalAmount |-> offeringsTotalAmount(recent),
                          products |-> productsWithPrices(products)]>>
                  ELSE <<>>)
             /\ StoreUnchanged

\* ------------------------------------ GET /serviceVendors/stripe/dashboard
\* The handler sends a vendor that is not onboarded to the wizard, and
\* otherwise to the login link of its account; linkOk is the provider's
\* answer and account is whether the query asks for the account tab.
GetStripeDashboard ==
  /\ nreq < MaxRequests
  /\ IF ~isAuthenticated THEN LoginRedirect("GET /stripe/dashboard")
     ELSE IF Falsy(reqUser.onboardingComplete)
     THEN /\ Served("GET /stripe/dashboard", <<>>,
                    <<Redirect("/serviceVendors/signup")>>)
          /\ StoreUnchanged
     ELSE \E linkOk \in BOOLEAN, account \in BOOLEAN :
            /\ account => linkOk
            /\ ServedWith("GET /stripe/dashboard", [account |-> account],
                 <<[params |-> [api |-> "accounts.createLoginLink",
                                account |-> reqUser.stripeAccountId,
                                redirect_url |-> "/serviceVendors/dashboard"],
                    ok |-> linkOk]>>,
                 <<Redirect(IF ~linkOk THEN "/serviceVendors/signup"
                            ELSE IF account THEN "loginLink.url#/account"
                            ELSE "loginLink.url")>>)
            /\ StoreUnchanged

\* --------------------------------------- POST /serviceVendors/stripe/payout
\* What the provider answers: the balance retrieval fails, the balance has no
\* available entry, the payout fails, or the payout is created.
PayoutOutcomes == {"no balance", "nothing available", "no payout", "paid"}
AvailableBalance == [amount |-> 1500, currency |-> "eur"]

\* The provider calls of the try block; every error is caught and logged.
payoutCalls(stripeAccountId, outcome) ==
  <<[params |-> [api |-> "balance.retrieve", stripeAccount |-> stripeAccountId],
     ok |-> outcome # "no balance"]>>
  \o (IF outcome \in {"no payout", "paid"}
      THEN <<[params |-> [api |-> "payouts.create",
                          amount |-> AvailableBalance.amount,
                          currency |-> AvailableBalance.currency,
                          statement_descriptor |-> appName,
                          stripeAccount |-> stripeAccountId],
              ok |-> outcome = "paid"]>>
      ELSE <<>>)

PostPayout ==
  /\ nreq < MaxRequests
  /\ IF ~isAuthenticated THEN LoginRedirect("POST /stripe/payout")
     ELSE \E outcome \in PayoutOutcomes :
            /\ Served("POST /stripe/payout",
                      payoutCalls(reqUser.stripeAccountId, outcome),
                      <<Redirect("/serviceVendors/dashboard")>>)
            /\ StoreUnchanged

Next ==
  \/ GetSignup
  \/ PostSignup
  \/ PostLogin
  \/ GetLogout
  \/ GetAuthorize
  \/ GetOnboarded
  \/ PostOfferings
  \/ PostApiOfferings
  \/ GetOfferings
  \/ PostPaymentLinkProduct
  \/ PostStripePaymentLink
  \/ PostPaymentLink
  \/ GetDashboard
  \/ GetStripeDashboard
  \/ PostPayout

Spec == Init /\ [][Next]_vars
\* ------------------------------------------- the onboarding step in isolation
\* Every vendor record the wizard can be asked about: any type, any name
\* fields, onboarded or not; with or without a session.
NameValues == {Null, "", "Ada"}
StepVendors ==
  [email : {Emails[1]}, password : {generateHash(SignupPassword, Salts[1])},
   type : VendorTypes \cup {Null},
   firstName : NameValues, lastName : NameValues, businessName : NameValues,
   country : {DefaultCountry}, stripeAccountId : {Null},
   onboardingComplete : {Null, False, True}, apiKey : {GeneratedKeys[1]}]

InitStep ==
  /\ vendors \in {<<v>> : v \in StepVendors}
  /\ createdApiKey = <<GeneratedKeys[1]>>
  /\ session \in {0, 1}
  /\ accounts = 0
  /\ customers = 0
  /\ offerings = <<>>
  /\ offeringDoc = <<>>
  /\ route = "none"
  /\ request = NoInput
  /\ step = Null
  /\ calls = <<>>
  /\ responses = <<>>
  /\ nreq = 0
  /\ pending = <<>>

NextStep ==
  \/ GetSignup
  \/ GetLogout

SpecStep == InitStep /\ [][NextStep]_vars

\* --------------------- concurrent GET /serviceVendors/stripe/authorize
\* Requests of one browser session that are served at the same time.  Each
\* request has its own req.user, loaded when the request arrives, and is
\* suspended at each await of the handler: at stripe.accounts.create, at
\* req.user.save() and at stripe.accountLinks.create.  Here `calls` and
\* `responses` hold the calls answered and the responses written by all the
\* requests, in the order in which they happened.
MaxConcurrent == 2

\* The vendor of the session: a company or an individual that has finished
\* the profile step, with or without an account id.
AuthorizeVendors ==
  [email : {Emails[1]}, password : {generateHash(SignupPassword, Salts[1])},
   type : VendorTypes,
   firstName : {"Ada"}, lastName : {"Lovelace"}, businessName : {"Acme"},
   country : {DefaultCountry, "FR"}, stripeAccountId : {Null, AccountIds[1]},
   onboardingComplete : {Null}, apiKey : {GeneratedKeys[1]}]

InitAuthorize ==
  /\ vendors \in {<<v>> : v \in AuthorizeVendors}
  /\ createdApiKey = <<GeneratedKeys[1]>>
  /\ session \in {0, 1}
  /\ accounts = (IF vendors[1].stripeAccountId = Null THEN 0 ELSE 1)
  /\ customers = 0
  /\ offerings = <<>>
  /\ offeringDoc = <<>>
  /\ route = "none"
  /\ request = NoInput
  /\ step = Null
  /\ calls = <<>>
  /\ responses = <<>>
  /\ nreq = 0
  /\ pending = <<>>

\* What the steps of a request in flight leave alone.
AuthorizeUnchanged ==
  UNCHANGED <<createdApiKey, session, customers, offerings, offeringDoc,
              request, step>>

\* A request arrives: the middleware redirects it or the handler runs up to
\* its first await, which is the account creation when req.user has no
\* account id and the link creation when it has one.
AuthorizeBegin ==
  /\ Len(pending) < MaxConcurrent
  /\ nreq' = nreq + 1
  /\ route' = "GET /stripe/authorize"
  /\ IF ~isAuthenticated
     THEN /\ pending' = Append(pending, [pc |-> "done", user |-> NoUser,
                                         accountId |-> Null])
          /\ responses' = Append(responses, Redirect("/serviceVendors/login"))
     ELSE /\ pending' = Append(pending,
                          [pc |-> IF reqUser.stripeAccountId = Null
                                  THEN "creating" ELSE "linking",
                           user |-> reqUser,
                           accountId |-> reqUser.stripeAccountId])
          /\ UNCHANGED responses
  /\ UNCHANGED <<vendors, accounts, calls>>
  /\ AuthorizeUnchanged

\* stripe.accounts.create answers: the id is kept and the save is started, or
\* the error is passed to next().
AuthorizeAccountCreated ==
  \E i \in 1..Len(pending), createOk \in BOOLEAN :
    /\ pending[i].pc = "creating"
    /\ accounts < Len(AccountIds)
    /\ calls' = Append(calls, [params |-> accountParams(pending[i].user),
                               ok |-> createOk])
    /\ IF createOk
       THEN /\ accounts' = accounts + 1
            /\ pending' = [pending EXCEPT ![i].pc = "saving",
                                          ![i].accountId = AccountIds[accounts + 1]]
            /\ UNCHANGED responses
       ELSE /\ pending' = [pending EXCEPT ![i].pc = "done"]
            /\ responses' = Append(responses, Status(500))
            /\ UNCHANGED accounts
    /\ UNCHANGED <<vendors, route, nreq>>
    /\ AuthorizeUnchanged

\* req.user.save() completes: the id of this request is written to the vendor.
AuthorizeSaved ==
  \E i \in 1..Len(pending) :
    /\ pending[i].pc = "saving"
    /\ vendors' = [vendors EXCEPT ![session] =
                     storeAccountId(pending[i].user, pending[i].accountId)]
    /\ pending' = [pending EXCEPT ![i].pc = "linking"]
    /\ UNCHANGED <<accounts, calls, responses, route, nreq>>
    /\ AuthorizeUnchanged

\* stripe.accountLinks.create answers: the browser is redirected to the link,
\* or the error is passed to next().
AuthorizeLinked ==
  \E i \in 1..Len(pending), linkOk \in BOOLEAN :
    /\ pending[i].pc = "linking"
    /\ calls' = Append(calls, [params |-> accountLinkParams(pending[i].accountId),
                               ok |-> linkOk])
    /\ responses' = Append(responses, IF linkOk THEN Redirect("accountLink.url")
                                      ELSE Status(500))
    /\ pending' = [pending EXCEPT ![i].pc = "done"]
    /\ UNCHANGED <<vendors, accounts, route, nreq>>
    /\ AuthorizeUnchanged

NextAuthorize ==
  \/ AuthorizeBegin
  \/ AuthorizeAccountCreated
  \/ AuthorizeSaved
  \/ AuthorizeLinked

SpecAuthorize == InitAuthorize /\ [][NextAuthorize]_vars

\* ------------------------------------------------------------------ claims
\* The payment request served last, when it created an offering.
PaymentServed ==
  /\ route = "POST /offerings"
  /\ session # 0
  /\ responses # <<>>

\* Its provider calls without those that seed the customers.
PaymentCallsMade ==
  SelectSeq(calls, LAMBDA c : c.params.api # "customers.create")

IsDestinationCharge(c) ==
  c.params.api = "charges.create" /\ "transfer_data" \in DOMAIN c.params
IsTransfer(c) == c.params.api = "transfers.create"

\* floor(A * 0.8) of an amount A that is an integer
EightyPercent(A) == Num((A.num * 8) \div 10, 1)

\* a <= b for two numbers, which is false when one of them is NaN.
AtMost(a, b) == ~a.nan /\ ~b.nan /\ a.num * b.den <= b.num * a.den

\* C1: for every amount A the payout placed in transfer_data.amount (DE path)
\* and in the transfer's amount (other countries) is floor(A * 0.8).
C1_PayoutIsEightyPercent ==
  PaymentServed =>
    \A i \in 1..Len(PaymentCallsMade) :
      LET c == PaymentCallsMade[i]
          A == offeringDoc[1].amount
      IN  /\ IsDestinationCharge(c) =>
               c.params.transfer_data.amount = EightyPercent(A)
          /\ IsTransfer(c) => c.params.amount = EightyPercent(A)

\* C2: in every payment request the amount sent to the vendor is at most the
\* amount charged for the same offering.
C2_PayoutAtMostAmount ==
  PaymentServed =>
    \A i \in 1..Len(PaymentCallsMade) :
      LET c == PaymentCallsMade[i]
      IN  /\ IsDestinationCharge(c) =>
               AtMost(c.params.transfer_data.amount, c.params.amount)
          /\ IsTransfer(c) =>
               \E j \in 1..(i - 1) :
                 LET d == PaymentCallsMade[j]
                 IN  /\ d.params.api = "charges.create"
                     /\ d.params.transfer_group = c.params.transfer_group
                     /\ AtMost(c.params.amount, d.params.amount)

\* A charge outside DE was followed by a transfer of a positive amount.
C2_Witness ==
  /\ PaymentServed
  /\ \E i \in 1..Len(PaymentCallsMade) :
       /\ IsTransfer(PaymentCallsMade[i])
       /\ ~AtMostZero(PaymentCallsMade[i].params.amount)
       /\ ~isNaN(PaymentCallsMade[i].params.amount)
       /\ PaymentCallsMade[i].ok

Missing(x) == x \in {Null, ""}

\* C3: the step of GET /signup is one of account, profile, payments, done;
\* account iff nobody is logged in; profile iff the names the type requires
\* are missing; payments iff they are present and onboardingComplete is
\* falsy; done iff they are present and onboardingComplete is true.
C3_StepIsTotalFunctionOfVendor ==
  route = "GET /signup" =>
    LET authenticated == session # 0
        user == reqUser
        incomplete ==
          \/ user.type = "individual"
               /\ (Missing(user.firstName) \/ Missing(user.lastName))
          \/ user.type # "individual" /\ Missing(user.businessName)
    IN  /\ step \in {"account", "profile", "payments", "done"}
        /\ step = "account" <=> ~authenticated
        /\ step = "profile" <=> authenticated /\ incomplete
        /\ step = "payments" <=>
             authenticated /\ ~incomplete /\ user.onboardingComplete # True
        /\ step = "done" <=>
             authenticated /\ ~incomplete /\ user.onboardingComplete = True

\* An individual with both names and onboardingComplete was shown 'done'.
C3_Witness ==
  /\ route = "GET /signup"
  /\ session # 0
  /\ reqUser.type = "individual"
  /\ reqUser.firstName = "Ada" /\ reqUser.lastName = "Ada"
  /\ reqUser.onboardingComplete = True
  /\ step = "done"

\* C4: only GET /stripe/onboarded changes a vendor's persisted
\* onboardingComplete; no POST /signup submission does.
C4_OnlyFinalizeWritesOnboardingComplete ==
  [][\A v \in VendorIds :
       vendors'[v].onboardingComplete # vendors[v].onboardingComplete
         => route' = "GET /stripe/onboarded"]_vars

\* C5: every vendor's apiKey is the one assigned at its creation, and no two
\* vendors share an apiKey.
C5_ApiKeyUniqueAndImmutable ==
  /\ \A v \in VendorIds : vendors[v].apiKey = createdApiKey[v]
  /\ \A v, w \in VendorIds : v # w => vendors[v].apiKey # vendors[w].apiKey

\* C6: in every persisted vendor, an individual has no business name and a
\* company has no first or last name.
C6_NamesExclusiveByType ==
  \A v \in VendorIds :
    LET user == Hydrate(vendors[v])
    IN  /\ user.type = "individual" => Missing(user.businessName)
        /\ user.type = "company" =>
             Missing(user.firstName) /\ Missing(user.lastName)

\* The profile submission of a logged-in vendor that was saved.
ProfileSaved ==
  /\ route' = "POST /signup"
  /\ session # 0
  /\ responses' = <<Redirect("/serviceVendors/stripe/authorize")>>

\* C7: a saved submission that set type to individual leaves businessName
\* cleared, one that set it to company leaves firstName and lastName cleared,
\* whatever the submission carried for them; the step shown afterwards is that
\* of the new type's required fields.
C7_SavingTypeClearsOtherFields ==
  [][/\ ProfileSaved =>
          /\ vendors'[session].type = "individual" =>
               vendors'[session].businessName = Null
          /\ vendors'[session].type = "company" =>
               /\ vendors'[session].firstName = Null
               /\ vendors'[session].lastName = Null
     /\ (route' = "GET /signup" /\ session # 0) =>
          step' = LET user == Hydrate(vendors[session])
                      required == IF user.type = "individual"
                                  THEN {user.firstName, user.lastName}
                                  ELSE {user.businessName}
                  IN  IF \E x \in required : Missing(x) THEN "profile"
                      ELSE IF user.onboardingComplete = True THEN "done"
                      ELSE "payments"]_vars

C9_SeparatePathChargeThenTransfer ==
  (PaymentServed /\ reqUser.country # "DE") =>
    /\ Len(PaymentCallsMade) \in {1, 2}
    /\ PaymentCallsMade[1].params.api = "charges.create"
    /\ PaymentCallsMade[1].params.transfer_group = Len(offerings)
    /\ Len(PaymentCallsMade) = 2 =>
         /\ PaymentCallsMade[1].ok
         /\ PaymentCallsMade[2].params.api = "transfers.create"
         /\ PaymentCallsMade[2].params.transfer_group = Len(offerings)
         /\ PaymentCallsMade[2].params.destination = reqUser.stripeAccountId
    /\ PaymentCallsMade[1].ok => Len(PaymentCallsMade) = 2

\* A vendor outside DE with a provider account was charged and paid.
C9_Witness ==
  /\ PaymentServed
  /\ reqUser.country # "DE"
  /\ reqUser.stripeAccountId # Null
  /\ Len(PaymentCallsMade) = 2
  /\ PaymentCallsMade[2].ok

\* The external references a persisted offering carries.
References(o) ==
  {o[f] : f \in DOMAIN o \cap {"stripePaymentIntentId", "stripeChargeId"}}
     \ {Null}

\* C10: after a payment request whose provider calls all succeeded the
\* persisted offering carries the charge reference, and a reference, once
\* written, is never changed.
C10_ReferenceAttachedOnce ==
  /\ [](PaymentServed /\ AllOk(calls) =>
          ChargeIds[Len(offerings)] \in References(offerings[Len(offerings)]))
  /\ [][\A i \in 1..Len(offerings) :
          References(offerings[i]) # {} =>
            References(offerings'[i]) = References(offerings[i])]_vars

\* A payment request whose charge or transfer call failed.
PaymentFailed ==
  PaymentServed /\ \E i \in 1..Len(PaymentCallsMade) : ~PaymentCallsMade[i].ok

\* A payment request outside DE whose charge succeeded and whose transfer failed.
TransferFailedAfterCharge ==
  /\ PaymentServed
  /\ reqUser.country # "DE"
  /\ Len(PaymentCallsMade) = 2
  /\ PaymentCallsMade[1].ok
  /\ ~PaymentCallsMade[2].ok

\* C11: outside DE, when the transfer fails after the charge succeeded, the
\* offering of the request carries the reference of the successful charge.
C11_OrphanedChargeStaysOnOffering ==
  TransferFailedAfterCharge =>
    /\ ChargeIds[Len(offerings)] \in References(offerings[Len(offerings)])
    /\ ChargeIds[Len(offerings)] \in References(offeringDoc[1])

\* C12: when a charge or transfer call of POST /serviceVendors/offerings
\* fails, the response the caller receives is 402, the offering the request
\* created is in the store, and it carries no transaction reference.
C12_FailedPaymentLeavesBareOffering ==
  [][(PaymentFailed)' =>
       /\ responses'[1] = Status(402)
       /\ Len(offerings') = Len(offerings) + 1
       /\ offerings'[Len(offerings')].serviceVendor = session
       /\ offerings'[Len(offerings')].amount = offeringDoc'[1].amount
       /\ References(offerings'[Len(offerings')]) = {}]_vars

\* The transfer of a vendor's second payment request failed after its charge.
C12_Witness ==
  /\ PaymentFailed
  /\ TransferFailedAfterCharge
  /\ Len(offerings) = 2
  /\ responses[1] = Status(402)

\* The provider calls of the last request to the given API.
CallsTo(api) == SelectSeq(calls, LAMBDA c : c.params.api = api)

\* C13: GET /stripe/authorize calls accounts.create exactly when the vendor
\* has no account id; the id it returns is on the stored vendor whenever the
\* link call is issued, and is the account of that call; a vendor that has an
\* id gets one link call for that id, no accounts.create, and keeps its id.
C13_AccountCreatedOnceThenLinked ==
  [][(route' = "GET /stripe/authorize" /\ session # 0) =>
       LET had == vendors[session].stripeAccountId
           creates == (CallsTo("accounts.create"))'
           links == (CallsTo("accountLinks.create"))'
       IN  /\ Len(creates) = (IF had = Null THEN 1 ELSE 0)
           /\ Len(links) <= 1
           /\ (had = Null /\ creates[1].ok) =>
                 /\ vendors'[session].stripeAccountId = AccountIds[accounts + 1]
                 /\ calls' = creates \o links
                 /\ Len(links) = 1
           /\ (had = Null /\ ~creates[1].ok) =>
                 Len(links) = 0 /\ vendors' = vendors
           /\ had # Null =>
                 /\ Len(links) = 1
                 /\ vendors'[session].stripeAccountId = had
           /\ \A i \in 1..Len(links) :
                 /\ links[i].params.account # Null
                 /\ links[i].params.account = vendors'[session].stripeAccountId]_vars

\* An account was created for a vendor and the link call that followed failed.
C13_Witness ==
  /\ route = "GET /stripe/authorize"
  /\ session # 0
  /\ Len(calls) = 2
  /\ calls[1].params.api = "accounts.create"
  /\ ~calls[2].ok
  /\ vendors[session].stripeAccountId = calls[2].params.account

\* The answer of the provider to the account retrieval of the last request.
Retrieved == calls[1]

\* C14: when GET /stripe/onboarded learns details_submitted = false, the
\* stored vendor is left as it was and the response redirects to the signup
\* flow; when it learns details_submitted = true, the stored vendor has
\* onboardingComplete = true.
C14_FinalizeFollowsProvider ==
  [][(route' = "GET /stripe/onboarded" /\ session # 0 /\ Retrieved'.ok) =>
       IF Retrieved'.details_submitted
       THEN vendors'[session].onboardingComplete = True
       ELSE /\ vendors' = vendors
            /\ responses' = <<Redirect("/serviceVendors/signup")>>]_vars

\* A vendor that is not onboarded asked to finalize and was sent back to signup.
C14_Witness ==
  /\ route = "GET /stripe/onboarded"
  /\ session # 0
  /\ Retrieved.ok /\ ~Retrieved.details_submitted
  /\ vendors[session].stripeAccountId # Null
  /\ vendors[session].onboardingComplete # True
  /\ responses = <<Redirect("/serviceVendors/signup")>>
\* The routes that create a payment link, and those behind the API key.
LinkRoutes ==
  {"POST /paymentLink/product", "POST /stripe/paymentLink", "POST /paymentLink"}
ApiKeyRoutes ==
  {"GET /offerings", "POST /paymentLink/product", "POST /paymentLink"}

\* The last request asked for a payment link and passed authentication.
LinkRequested ==
  /\ route \in LinkRoutes
  /\ "body" \in DOMAIN request
  /\ responses # <<Status(401)>>

LinksCreated == CallsTo("paymentLinks.create")

\* C15: a payment-link request without quantity, whose other fields are valid
\* and whose provider calls succeed, creates a payment link of quantity 1.
C15_OmittedQuantityIsOne ==
  (LinkRequested /\ request.body.quantity = Undefined /\ AllOk(calls)) =>
    /\ Len(LinksCreated) = 1
    /\ LinksCreated[1].params.quantity = Num(1, 1)

PositiveInteger(v) ==
  ~ToNumber(v).nan /\ ToNumber(v).num > 0 /\ ToNumber(v).den = 1

\* C16: a payment-link request that supplies a quantity which is not a
\* positive integer is answered with a validation error (400) and makes no
\* provider call.
C16_BadQuantityRejectedBeforeProvider ==
  (/\ LinkRequested
   /\ request.body.quantity # Undefined
   /\ ~PositiveInteger(request.body.quantity)) =>
    /\ calls = <<>>
    /\ responses[1].status = 400

\* The vendors that have the key the last request presented.
KeyOwners == {v \in VendorIds : vendors[v].apiKey = request.apiKey}

\* C19: on the routes behind the API key, a request whose key no vendor has
\* is answered 401 and makes no provider call; a request with the key of a
\* vendor is admitted and every provider call it makes is for the account of
\* the vendor that has the key.
C19_ApiKeyResolvesToOwner ==
  route \in ApiKeyRoutes =>
    /\ KeyOwners = {} => (responses = <<Status(401)>> /\ calls = <<>>)
    /\ KeyOwners # {} =>
         /\ responses # <<Status(401)>>
         /\ \E v \in KeyOwners :
              \A i \in 1..Len(calls) :
                calls[i].params.stripeAccount = vendors[v].stripeAccountId

\* The key of a vendor that has a provider account was presented and the
\* handler called the provider for that account.
C19_Witness ==
  /\ route \in ApiKeyRoutes
  /\ KeyOwners # {}
  /\ Len(calls) >= 1
  /\ calls[1].params.stripeAccount \in {AccountIds[i] : i \in 1..Len(AccountIds)}
\* The price the dashboard is to show for a product: its default price, or
\* the first price of its listing when it has none.
ExpectedPriceId(product) ==
  IF product.default_price # Null THEN product.default_price
  ELSE product.prices[1].id

\* C17: when no provider call of GET /dashboard fails, the dashboard is
\* rendered and shows, for each product, its default price when it has one
\* and the first price of its listing otherwise.
C17_DefaultPriceElseFirstListed ==
  (route = "GET /dashboard" /\ session # 0 /\ request.failAt = 0) =>
    /\ Len(responses) = 1
    /\ responses[1].to = "dashboard"
    /\ Len(responses[1].products) = Len(request.products)
    /\ \A i \in 1..Len(request.products) :
         responses[1].products[i].priceId = ExpectedPriceId(request.products[i])
\* What every candidate password, and the stored value itself, is tested with.
Candidates(user) == Passwords \cup {user.password}

\* The last request saved the password it submitted for the session's vendor.
PasswordSaved ==
  /\ route = "POST /signup"
  /\ session # 0
  /\ request.password # Absent
  /\ responses \in {<<Redirect("/serviceVendors/signup")>>,
                    <<Redirect("/serviceVendors/stripe/authorize")>>}

C20_EmailUniqueIgnoringCase ==
  /\ \A v, w \in VendorIds :
       v # w => toLowerCase(vendors[v].email) # toLowerCase(vendors[w].email)
  /\ \A v \in VendorIds : vendors[v].email = toLowerCase(vendors[v].email)

\* C21: every persisted offering has an amount that is a positive integer,
\* whichever of the two routes created it.
C21_PersistedAmountPositiveInteger ==
  \A i \in 1..Len(offerings) : PositiveInteger(offerings[i].amount)

\* The payment intents requested by the last POST /api/offerings.
IntentsRequested ==
  IF route = "POST /api/offerings"
  THEN SelectSeq(calls, LAMBDA c : c.params.api = "paymentIntents.create")
  ELSE <<>>

\* C27: the payment intent of POST /api/offerings carries the platform fee of
\* 300 and the vendor's payout as two separate items, and their sum is at most
\* the amount charged.
C27_FeePlusPayoutWithinAmount ==
  \A i \in 1..Len(IntentsRequested) :
    LET p == IntentsRequested[i].params
    IN  /\ p.application_fee_amount = 300
        /\ AtMost(Plus(Num(p.application_fee_amount, 1), p.transfer_data.amount),
                  p.amount)

\* The charges and transfers requested by the last request.
MoneyMoved ==
  SelectSeq(calls, LAMBDA c : c.params.api \in {"charges.create",
                                                "transfers.create",
                                                "paymentIntents.create"})

\* C26: a payment request of a logged-in vendor that has no external account
\* identifier makes no charge and no transfer call, and every charge or
\* transfer that names a destination names an account identifier.
C26_NoPaymentWithoutAccount ==
  /\ (route = "POST /offerings" /\ session # 0
        /\ vendors[session].stripeAccountId = Null) => MoneyMoved = <<>>
  /\ \A i \in 1..Len(MoneyMoved) :
       LET p == MoneyMoved[i].params
       IN  /\ "destination" \in DOMAIN p => p.destination # Null
           /\ "transfer_data" \in DOMAIN p => p.transfer_data.destination # Null

\* C24: a payment request that created its offering writes exactly one
\* response; after the 402 of a failed charge or transfer no redirect is
\* written.
C24_OneResponsePerPayment ==
  PaymentServed =>
    /\ Len(responses) = 1
    /\ PaymentFailed => responses = <<Status(402)>>

\* The routes behind serviceVendorRequired.
GatedRoutes ==
  {"GET /dashboard", "POST /offerings", "GET /stripe/authorize",
   "GET /stripe/onboarded", "GET /stripe/dashboard", "POST /stripe/payout",
   "POST /stripe/paymentLink"}

\* C22: a request to a session-gated route that has no authenticated session
\* is answered with the redirect to the login page and nothing else, makes no
\* provider call and changes nothing that is persisted.
C22_UnauthenticatedIsRedirectedToLogin ==
  [][(route' \in GatedRoutes /\ session = 0) =>
       /\ responses' = <<Redirect("/serviceVendors/login")>>
       /\ calls' = <<>>
       /\ vendors' = vendors
       /\ offerings' = offerings
       /\ customers' = customers
       /\ accounts' = accounts
       /\ session' = 0]_vars

\* A vendor signed up and logged out, and a payout was then requested.
C22_Witness ==
  /\ route = "POST /stripe/payout"
  /\ session = 0
  /\ vendors # <<>>
  /\ responses = <<Redirect("/serviceVendors/login")>>
  /\ calls = <<>>

\* C23: a request to a route behind the API key that has no Authorization
\* header is answered 401 and makes no provider call, whether or not the
\* browser has a session; a request to a session-gated route that has no
\* session is sent to the login page and makes no provider call, whether or
\* not it presents the API key of a vendor; and a request to a route behind
\* the API key leaves the session as it was.
C23_SessionAndApiKeyNotInterchangeable ==
  [][/\ (route' \in ApiKeyRoutes /\ request'.apiKey = Absent) =>
          (responses' = <<Status(401)>> /\ calls' = <<>>)
     /\ (route' \in GatedRoutes /\ session = 0) =>
          /\ "apiKey" \in DOMAIN request'
          /\ responses' = <<Redirect("/serviceVendors/login")>>
          /\ calls' = <<>>
     /\ route' \in ApiKeyRoutes => session' = session]_vars

\* A logged-in vendor asked for its products without an Authorization header
\* and was refused.
C23_Witness ==
  /\ route = "GET /offerings"
  /\ session # 0
  /\ request.apiKey = Absent
  /\ responses = <<Status(401)>>

\* The accounts the provider created in answer to the calls made so far.
AccountsCreated ==
  SelectSeq(calls, LAMBDA c : c.params.api = "accounts.create" /\ c.ok)

\* C25: however the concurrent authorize requests of one vendor interleave,
\* the provider creates at most one account for the vendor, and an account
\* identifier that is stored on the vendor is never replaced by another one.
C25_OneAccountUnderConcurrency ==
  /\ [](Len(AccountsCreated) <= 1)
  /\ [][\A v \in VendorIds :
          vendors[v].stripeAccountId # Null =>
            vendors'[v].stripeAccountId = vendors[v].stripeAccountId]_vars
====
